---- MODULE Spec2Model ----
\* Model of logilab.astng utils.py: the tree walker (ASTWalker), the locals
\* walker (LocalsVisitor) and the exclusivity oracle (are_exclusive).
EXTENDS Integers, Sequences, FiniteSets, TLC

\* ------------------------------------------------------------------ bounds
\* number of statement nodes of the trees handed to are_exclusive
MaxStmts == 4
\* number of except-handlers of an exception construct
MaxHandlers == 2

\* number of nodes of the graphs handed to the walkers
MaxNodes == 4
\* number of top-level walk or visit calls made on one walker
MaxCalls == 2

\* Python's None
None == 0

Nodes == 1..MaxNodes

Stmts == 1..MaxStmts
NodeKinds == {"If", "TryExcept", "Other"}

VARIABLES
    parent,     \* node.parent of every node (None for a root)
    kind,       \* the class of every node, as isinstance(node, If/TryExcept) sees it
    body,       \* node.body: the members of a construct's body
    orelse,     \* node.orelse: the else-clause of a construct (None when absent)
    handlers,   \* node.handlers: a sequence of handlers, each given by its body
    nstmts,     \* how many statement nodes the tree holds
    called,     \* whether are_exclusive has been called on the tree
    result,     \* the outcome of are_exclusive(a, b) for the statements a, b; "none" before the calls
    get_children, \* node.get_children() of every node, in order
    values,     \* node.values() of every node: the nodes its locals bind, in order
    locals,     \* the nodes that have a locals attribute
    klass,      \* node.__class__.__name__ of every node
    handler,    \* the names of the methods the handler has
    _cache,     \* ASTWalker._cache: class -> (e_method, l_method), None when absent
    _done,      \* the _done set of the current walk
    _visited,   \* LocalsVisitor._visited
    stack,      \* the frames of the recursive walk / visit calls, the innermost last
    exc,        \* the exception in flight ("none" when there is none)
    trace,      \* the calls made on the handler so far, with their outcomes
    call,       \* what the walker's owner did last: "walk", "visit", "get_callbacks",
                \* "setattr" (on the handler) or "none"
    ncalls,     \* how many top-level walk or visit calls have been made on the walker
    retval,     \* what the call that returned last has returned (None before any return)
    status      \* "idle", "running", "returned" or "raised" (exc then holds what escaped)

oracleVars == <<kind, body, orelse, handlers, nstmts, called, result>>
graphVars == <<get_children, values, locals, klass, handler>>
walkerVars == <<graphVars, _cache, _done, _visited, stack, exc, trace, call, ncalls, retval, status>>
vars == <<parent, oracleVars, walkerVars>>

\* ------------------------------------------------ the exclusivity oracle
\* mutant: the `not` of line 221 is lost
ExclusiveNodesWithoutNot(values1, values2) ==
    IF values1[1] # values2[1]
    THEN \/ (values2[1] = "body" /\ values1[1] = "else")
         \/ (values1[1] = "body" /\ values2[1] = "else")
         \/ (values2[1] = "body" /\ values1[1] = "except")
         \/ (values1[1] = "body" /\ values2[1] = "except")
    ELSE values1[2] # values2[2]

\* mutant: the test of line 222 (stmt1 in the body, stmt2 the else-clause) is lost
ExclusiveNodesOneSided(values1, values2) ==
    IF values1[1] # values2[1]
    THEN ~ (\/ (values2[1] = "body" /\ values1[1] = "else")
            \/ (values2[1] = "body" /\ values1[1] = "except")
            \/ (values1[1] = "body" /\ values2[1] = "except"))
    ELSE values1[2] # values2[2]

\* mutant: different branches are exclusive only when both are handlers
ExclusiveNodesHandlersOnly(values1, values2) ==
    IF values1[1] # values2[1]
    THEN FALSE
    ELSE values1[2] # values2[2]

\* utils.py 216-227.  A Python function that falls off its end returns None,
\* which the caller's `if` takes as false.
_are_from_exclusive_nodes(values1, values2) ==
    LET stmt1_branch == values1[1]
        stmt1_num    == values1[2]
        stmt2_branch == values2[1]
        stmt2_num    == values2[2]
    IN  IF stmt1_branch # stmt2_branch
        THEN IF ~ (\/ (stmt2_branch = "body" /\ stmt1_branch = "else")
                   \/ (stmt1_branch = "body" /\ stmt2_branch = "else")
                   \/ (stmt2_branch = "body" /\ stmt1_branch = "except")
                   \/ (stmt1_branch = "body" /\ stmt2_branch = "except"))
             THEN TRUE
             ELSE FALSE
        ELSE stmt1_num # stmt2_num

\* mutant: the handler's index is not returned
RECURSIVE HandlerScanNoIndex(_, _, _)
HandlerScanNoIndex(node, stmt, i) ==
    IF i > Len(handlers[node])
    THEN <<"ASTNGError", 0>>
    ELSE IF stmt \in handlers[node][i]
         THEN <<"except", 0>>
         ELSE HandlerScanNoIndex(node, stmt, i + 1)

\* mutant: the raise of line 213 is lost, the last index is returned
RECURSIVE HandlerScanNoRaise(_, _, _)
HandlerScanNoRaise(node, stmt, i) ==
    IF i > Len(handlers[node])
    THEN <<"except", i - 1>>
    ELSE IF stmt \in handlers[node][i]
         THEN <<"except", i - 1>>
         ELSE HandlerScanNoRaise(node, stmt, i + 1)

\* utils.py 210-213: the first handler, in order, whose body holds stmt
RECURSIVE HandlerScan(_, _, _)
HandlerScan(node, stmt, i) ==
    IF i > Len(handlers[node])
    THEN <<"ASTNGError", 0>>
    ELSE IF stmt \in handlers[node][i]
         THEN <<"except", i - 1>>
         ELSE HandlerScan(node, stmt, i + 1)

\* utils.py 204-213
_try_except_from_branch(node, stmt) ==
    IF stmt \in body[node]
    THEN <<"body", 1>>
    ELSE IF stmt = orelse[node]
         THEN <<"else", 1>>
         ELSE HandlerScan(node, stmt, 1)

\* utils.py 173-181: stmt1's ancestors, each mapped to the child through
\* which stmt1 is reached (None for a node that is no ancestor of stmt1)
RECURSIVE IndexParents(_, _, _)
IndexParents(node, previous, children) ==
    IF node = None
    THEN children
    ELSE IndexParents(parent[node], node, [children EXCEPT ![node] = previous])

\* mutant: line 190 compares with == instead of !=
AtCommonParentSameChild(node, previous, children) ==
    IF kind[node] = "If" /\ previous = children[node] THEN "True" ELSE "False"

\* mutant: the isinstance test of line 189 is lost
AtCommonParentAnyKind(node, previous, children) ==
    IF previous # children[node] THEN "True" ELSE "False"

\* mutant: the identity test of line 194 is lost
AtCommonParentNoIdentityTest(node, previous, children) ==
    IF kind[node] = "If"
    THEN IF previous # children[node] THEN "True" ELSE "False"
    ELSE IF kind[node] = "TryExcept"
         THEN LET values1 == _try_except_from_branch(node, children[node])
                  values2 == _try_except_from_branch(node, previous)
              IN  IF values1[1] = "ASTNGError" \/ values2[1] = "ASTNGError"
                  THEN "ASTNGError"
                  ELSE IF _are_from_exclusive_nodes(values1, values2)
                       THEN "True"
                       ELSE "False"
         ELSE "False"

\* utils.py 189-199: the decision taken at the first common parent
AtCommonParent(node, previous, children) ==
    IF kind[node] = "If"
    THEN IF previous # children[node] THEN "True" ELSE "False"
    ELSE IF kind[node] = "TryExcept"
         THEN LET stmt1_previous == children[node]
              IN  IF previous # stmt1_previous
                  THEN LET values1 == _try_except_from_branch(node, stmt1_previous)
                           values2 == _try_except_from_branch(node, previous)
                       IN  IF values1[1] = "ASTNGError" \/ values2[1] = "ASTNGError"
                           THEN "ASTNGError"
                           ELSE IF _are_from_exclusive_nodes(values1, values2)
                                THEN "True"
                                ELSE "False"
                  ELSE "False"
         ELSE "False"

\* mutant: statements without a common parent are taken as exclusive
RECURSIVE ClimbNoCommonParentExclusive(_, _, _)
ClimbNoCommonParentExclusive(node, previous, children) ==
    IF node = None
    THEN "True"
    ELSE IF children[node] # None
         THEN AtCommonParent(node, previous, children)
         ELSE ClimbNoCommonParentExclusive(parent[node], node, children)

\* utils.py 183-202: climb among stmt2's parents until a common parent
RECURSIVE Climb(_, _, _)
Climb(node, previous, children) ==
    IF node = None
    THEN "False"
    ELSE IF children[node] # None
         THEN AtCommonParent(node, previous, children)
         ELSE Climb(parent[node], node, children)

\* utils.py 162-202
are_exclusive(stmt1, stmt2) ==
    LET children == IndexParents(parent[stmt1], stmt1, [n \in Stmts |-> None])
    IN  Climb(parent[stmt2], stmt2, children)

\* the walkers are not used by the oracle
WalkerIdle ==
    /\ get_children = [n \in Nodes |-> << >>]
    /\ values = [n \in Nodes |-> << >>]
    /\ locals = {}
    /\ klass = [n \in Nodes |-> "Name"]
    /\ handler = {}
    /\ _cache = << >>
    /\ _done = {}
    /\ _visited = {}
    /\ stack = << >>
    /\ exc = "none"
    /\ trace = << >>
    /\ call = "none"
    /\ ncalls = 0
    /\ retval = None
    /\ status = "idle"

\* ------------------------------------------------ trees of statements
\* The node classes live in logilab.astng.nodes.  A node is created as a
\* leaf; it becomes a conditional, an exception construct or another
\* compound node when its first child is attached.  A conditional holds at
\* most one then-branch child (body) and one else-branch child (orelse); an
\* exception construct holds the members of its body, one else-clause child
\* and the members of the bodies of its handlers.  A child in no branch is
\* a test, an exception type or a handler node.
Existing == 1..nstmts

HasChild(p) == \E c \in Existing : parent[c] = p

Branches == {"body", "orelse", "handler", "none"}

AttachBody(p, n) ==
    /\ p # None
    /\ kind'[p] # "Other"
    /\ kind'[p] = "If" => body[p] = {}
    /\ body' = [body EXCEPT ![p] = @ \cup {n}]
    /\ UNCHANGED <<orelse, handlers>>

AttachOrelse(p, n) ==
    /\ p # None
    /\ kind'[p] # "Other"
    /\ orelse[p] = None
    /\ orelse' = [orelse EXCEPT ![p] = n]
    /\ UNCHANGED <<body, handlers>>

AttachHandler(p, n) ==
    /\ p # None
    /\ kind'[p] = "TryExcept"
    /\ \E i \in 1..MaxHandlers :
          \/ /\ i <= Len(handlers[p])
             /\ handlers' = [handlers EXCEPT ![p][i] = @ \cup {n}]
          \/ /\ i = Len(handlers[p]) + 1
             /\ handlers' = [handlers EXCEPT ![p] = Append(@, {n})]
    /\ UNCHANGED <<body, orelse>>

AddStmt(p, k, b) ==
    LET n == nstmts + 1
    IN  /\ ~called
        /\ nstmts < MaxStmts
        /\ nstmts' = n
        /\ parent' = [parent EXCEPT ![n] = p]
        /\ IF p = None
           THEN k = "Other" /\ UNCHANGED kind
           ELSE /\ HasChild(p) => k = kind[p]
                /\ kind' = [kind EXCEPT ![p] = k]
        /\ CASE b = "body"    -> AttachBody(p, n)
             [] b = "orelse"  -> AttachOrelse(p, n)
             [] b = "handler" -> AttachHandler(p, n)
             [] OTHER         -> UNCHANGED <<body, orelse, handlers>>
        /\ UNCHANGED <<called, result, walkerVars>>

\* are_exclusive applied to every pair of statements of the tree
CallAreExclusive ==
    /\ ~called
    /\ nstmts > 0
    /\ called' = TRUE
    /\ result' = [a \in Stmts |-> [b \in Stmts |->
                      IF a \in Existing /\ b \in Existing
                      THEN are_exclusive(a, b) ELSE "none"]]
    /\ UNCHANGED <<parent, kind, body, orelse, handlers, nstmts, walkerVars>>

InitExcl ==
    /\ parent = [n \in Stmts |-> None]
    /\ kind = [n \in Stmts |-> "Other"]
    /\ body = [n \in Stmts |-> {}]
    /\ orelse = [n \in Stmts |-> None]
    /\ handlers = [n \in Stmts |-> << >>]
    /\ nstmts = 0
    /\ called = FALSE
    /\ result = [a \in Stmts |-> [b \in Stmts |-> "none"]]
    /\ WalkerIdle

NextExcl ==
    \/ \E p \in {None} \cup Existing, k \in NodeKinds, b \in Branches : AddStmt(p, k, b)
    \/ CallAreExclusive

SpecExcl == InitExcl /\ [][NextExcl]_vars

\* ------------------------------------------------ the dispatch resolver
\* utils.py 54-79
REDIRECT ==
    [k \in {"Expr"} |-> "Discard"] @@ [k \in {"ImportFrom"} |-> "From"] @@
    [k \in {"Attribute"} |-> "Getattr"] @@ [k \in {"comprehension"} |-> "ListCompFor"] @@
    [k \in {"Add", "Bitand", "Bitor", "Bitxor", "Div", "FloorDiv", "LeftShift",
            "Mod", "Mul", "Power", "RightShift", "Sub"} |-> "BinOp"] @@
    [k \in {"And", "Or"} |-> "BoolOp"] @@
    [k \in {"UnaryAdd", "UnarySub", "Not", "Invert"} |-> "UnaryOp"]

\* str.lower() on the class names that reach it
lower ==
    [k \in {"Discard"} |-> "discard"] @@ [k \in {"From"} |-> "from"] @@
    [k \in {"Getattr"} |-> "getattr"] @@ [k \in {"ListCompFor"} |-> "listcompfor"] @@
    [k \in {"BinOp"} |-> "binop"] @@ [k \in {"BoolOp"} |-> "boolop"] @@
    [k \in {"UnaryOp"} |-> "unaryop"] @@ [k \in {"If"} |-> "if"] @@
    [k \in {"Name"} |-> "name"] @@ [k \in {"TryExcept"} |-> "tryexcept"]

\* a method the handler does not have: getattr(...) gave None
NoMethod == << >>

\* mutant: the default hook is taken whenever the handler has one
LookupMethodsDefaultFirst(k) ==
    LET kid == lower[IF k \in DOMAIN REDIRECT THEN REDIRECT[k] ELSE k]
        e_method == IF <<"visit", "default">> \in handler THEN <<"visit", "default">>
                    ELSE IF <<"visit", kid>> \in handler THEN <<"visit", kid>>
                    ELSE NoMethod
        l_method == IF <<"leave", "default">> \in handler THEN <<"leave", "default">>
                    ELSE IF <<"leave", kid>> \in handler THEN <<"leave", kid>>
                    ELSE NoMethod
    IN  <<e_method, l_method>>

\* utils.py 114-118: the pair looked up on the handler for class name k;
\* the method visit_<kid> is written <<"visit", kid>>
LookupMethods(k) ==
    LET kid == lower[IF k \in DOMAIN REDIRECT THEN REDIRECT[k] ELSE k]
        e_method == IF <<"visit", kid>> \in handler THEN <<"visit", kid>>
                    ELSE IF <<"visit", "default">> \in handler THEN <<"visit", "default">>
                    ELSE NoMethod
        l_method == IF <<"leave", kid>> \in handler THEN <<"leave", kid>>
                    ELSE IF <<"leave", "default">> \in handler THEN <<"leave", "default">>
                    ELSE NoMethod
    IN  <<e_method, l_method>>

\* mutant: the handler is asked at every call
LookupEveryTime(node) == LookupMethods(klass[node])

\* utils.py 108-122: the pair returned for node
get_callbacks(node) ==
    IF klass[node] \in DOMAIN _cache
    THEN _cache[klass[node]]
    ELSE LookupMethods(klass[node])

\* utils.py 119: the cache after get_callbacks(node)
CacheAfter(node) ==
    IF klass[node] \in DOMAIN _cache
    THEN _cache
    ELSE _cache @@ [k \in {klass[node]} |-> LookupMethods(klass[node])]

\* ------------------------------------------------------ the tree walker
\* what a call of a handler method may do: return, raise the skip-children
\* signal, or raise another error
Outcomes == {"ok", "IgnoreChild", "Error"}

Top == stack[Len(stack)]

Event(hook, node, child, out) == [hook |-> hook, node |-> node, child |-> child, out |-> out]

\* the topmost frame returns value to its caller
Return(value) ==
    /\ stack' = SubSeq(stack, 1, Len(stack) - 1)
    /\ retval' = value
    /\ status' = IF Len(stack) = 1 THEN "returned" ELSE status

\* the topmost frame moves to another place of its function
Goto(pc) == stack' = [stack EXCEPT ![Len(stack)].pc = pc]

\* mutant: a visit that returned goes straight to self.leave
AfterVisitSkipsChildren == "leave"

\* utils.py 96: where walk goes on after a self.visit(node) that returned
AfterVisit == "children"

\* mutant: the test of line 89 never finds the node
AlreadyDoneNever(node) == FALSE

\* utils.py 89
AlreadyDone(node) == node \in _done

\* mutant: the set of the last top-level call is used again
DoneKept == _done

\* utils.py 85-88: _done is None in a top-level call, which makes a new set
NewDone == {}

\* utils.py 85-88: a top-level call walker.walk(node)
Walk(node) ==
    /\ status = "idle"
    /\ status' = "running"
    /\ call' = "walk"
    /\ ncalls' = 1
    /\ _done' = NewDone
    /\ stack' = <<[node |-> node, pc |-> "walk", i |-> 1]>>
    /\ UNCHANGED <<parent, oracleVars, graphVars, retval, _cache, _visited, exc, trace>>

\* utils.py 85-88: one more top-level call walker.walk(node) after the
\* last one has returned
WalkAgain(node) ==
    /\ status = "returned" /\ call = "walk" /\ ncalls < MaxCalls
    /\ status' = "running"
    /\ ncalls' = ncalls + 1
    /\ _done' = NewDone
    /\ stack' = <<[node |-> node, pc |-> "walk", i |-> 1]>>
    /\ UNCHANGED <<parent, oracleVars, graphVars, retval, _cache, _visited, exc, trace, call>>

\* utils.py 89-91
WalkCheckDone ==
    /\ status = "running" /\ exc = "none" /\ Top.pc = "walk"
    /\ IF AlreadyDone(Top.node)
       THEN exc' = "AssertionError" /\ UNCHANGED <<_done, stack>>
       ELSE exc' = exc /\ _done' = _done \cup {Top.node} /\ Goto("visit")
    /\ UNCHANGED <<parent, oracleVars, graphVars, ncalls, retval, _cache, _visited, trace, call, status>>

\* utils.py 93 and 124-128: self.visit(node)
WalkVisit(out) ==
    /\ status = "running" /\ exc = "none" /\ Top.pc = "visit"
    /\ _cache' = CacheAfter(Top.node)
    /\ LET method == get_callbacks(Top.node)[1]
       IN  IF method = NoMethod
           THEN out = "ok" /\ trace' = trace /\ exc' = exc /\ Goto(AfterVisit)
           ELSE /\ trace' = Append(trace, Event("visit", Top.node, None, out))
                /\ IF out = "ok"
                   THEN exc' = exc /\ Goto(AfterVisit)
                   ELSE exc' = out /\ UNCHANGED stack
    /\ UNCHANGED <<parent, oracleVars, graphVars, ncalls, retval, _done, _visited, call, status>>

\* utils.py 98-101: one turn of the loop over the children; a handler
\* without set_context makes line 99 raise AttributeError
WalkChild(out) ==
    /\ status = "running" /\ exc = "none" /\ Top.pc = "children"
    /\ Top.i <= Len(get_children[Top.node])
    /\ LET node == Top.node
           child_node == get_children[Top.node][Top.i]
       IN  IF <<"set_context", "">> \notin handler
           THEN /\ out = "ok"
                /\ trace' = Append(trace, Event("set_context", node, child_node, "AttributeError"))
                /\ exc' = "AttributeError"
                /\ UNCHANGED stack
           ELSE /\ trace' = Append(trace, Event("set_context", node, child_node, out))
                /\ IF out # "ok"
                   THEN exc' = out /\ UNCHANGED stack
                   ELSE IF child_node = node
                        THEN exc' = "AssertionError" /\ UNCHANGED stack
                        ELSE /\ exc' = exc
                             /\ stack' = Append([stack EXCEPT ![Len(stack)].i = @ + 1],
                                                [node |-> child_node, pc |-> "walk", i |-> 1])
    /\ UNCHANGED <<parent, oracleVars, graphVars, ncalls, retval, _cache, _done, _visited, call, status>>

\* utils.py 98: the loop over the children ends
WalkChildrenDone ==
    /\ status = "running" /\ exc = "none" /\ Top.pc = "children"
    /\ Top.i > Len(get_children[Top.node])
    /\ Goto("leave")
    /\ UNCHANGED <<parent, oracleVars, graphVars, ncalls, retval, _cache, _done, _visited, exc, trace,
                   call, status>>

\* utils.py 105-106 and 130-134: self.leave(node), then the last assertion
WalkLeave(out) ==
    /\ status = "running" /\ exc = "none" /\ Top.pc = "leave"
    /\ _cache' = CacheAfter(Top.node)
    /\ LET method == get_callbacks(Top.node)[2]
           raised == IF method # NoMethod /\ out # "ok" THEN out
                     ELSE IF parent[Top.node] = Top.node THEN "AssertionError"
                     ELSE "none"
       IN  /\ method = NoMethod => out = "ok"
           /\ trace' = IF method = NoMethod THEN trace
                       ELSE Append(trace, Event("leave", Top.node, None, out))
           /\ exc' = raised
           /\ IF raised = "none" THEN Return(None) ELSE UNCHANGED <<stack, status, retval>>
    /\ UNCHANGED <<parent, oracleVars, graphVars, ncalls, _done, _visited, call>>

\* ---------------------------------------------------- the locals walker
\* utils.py 143: a top-level call visitor.visit(node); the visitor is its
\* own handler and keeps _visited from call to call
Visit(node) ==
    /\ status = "idle"
    /\ status' = "running"
    /\ call' = "visit"
    /\ ncalls' = 1
    /\ stack' = <<[node |-> node, pc |-> "lv", i |-> 1]>>
    /\ UNCHANGED <<parent, oracleVars, graphVars, retval, _cache, _done, _visited, exc, trace>>

\* utils.py 143: one more top-level call visitor.visit(node) after the last
\* one has returned
VisitAgain(node) ==
    /\ status = "returned" /\ call = "visit" /\ ncalls < MaxCalls
    /\ status' = "running"
    /\ ncalls' = ncalls + 1
    /\ stack' = <<[node |-> node, pc |-> "lv", i |-> 1]>>
    /\ UNCHANGED <<parent, oracleVars, graphVars, retval, _cache, _done, _visited, exc, trace, call>>

\* mutant: only a node whose visit is still going on is skipped
AlreadyVisitedOnStack(node) ==
    \E j \in 1..(Len(stack) - 1) : stack[j].node = node

\* utils.py 145
AlreadyVisited(node) == node \in _visited

\* utils.py 145-147
LvCheckVisited ==
    /\ status = "running" /\ exc = "none" /\ Top.pc = "lv"
    /\ IF AlreadyVisited(Top.node)
       THEN Return(None) /\ UNCHANGED _visited
       ELSE /\ _visited' = _visited \cup {Top.node}
            /\ Goto("lv_visit")
            /\ UNCHANGED <<status, retval>>
    /\ UNCHANGED <<parent, oracleVars, graphVars, ncalls, _cache, _done, exc, trace, call>>

\* utils.py 148-154: methods[0](node)
LvVisit(out) ==
    /\ status = "running" /\ exc = "none" /\ Top.pc = "lv_visit"
    /\ _cache' = CacheAfter(Top.node)
    /\ LET methods == get_callbacks(Top.node)
       IN  IF methods[1] = NoMethod
           THEN out = "ok" /\ trace' = trace /\ exc' = exc /\ Goto("lv_locals")
           ELSE /\ trace' = Append(trace, Event("visit", Top.node, None, out))
                /\ IF out = "ok"
                   THEN exc' = exc /\ Goto("lv_locals")
                   ELSE exc' = out /\ UNCHANGED stack
    /\ UNCHANGED <<parent, oracleVars, graphVars, ncalls, retval, _done, _visited, call, status>>

\* utils.py 155-158: one turn of the loop over node.values()
LvLocal ==
    /\ status = "running" /\ exc = "none" /\ Top.pc = "lv_locals"
    /\ Top.node \in locals
    /\ Top.i <= Len(values[Top.node])
    /\ stack' = Append([stack EXCEPT ![Len(stack)].i = @ + 1],
                       [node |-> values[Top.node][Top.i], pc |-> "lv", i |-> 1])
    /\ UNCHANGED <<parent, oracleVars, graphVars, ncalls, retval, _cache, _done, _visited, exc, trace,
                   call, status>>

\* utils.py 155-158: no locals attribute, or the loop ends
LvLocalsDone ==
    /\ status = "running" /\ exc = "none" /\ Top.pc = "lv_locals"
    /\ Top.node \notin locals \/ Top.i > Len(values[Top.node])
    /\ Goto("lv_leave")
    /\ UNCHANGED <<parent, oracleVars, graphVars, ncalls, retval, _cache, _done, _visited, exc, trace,
                   call, status>>

\* what the leave callback of node returns when it returns: a value of its
\* own, told from None and from the value of every other node
LeaveValue(node) == node

\* mutant: the value of the leave callback is dropped, as in ASTWalker.leave
VisitResultDropped(node, method) == None

\* utils.py 159-160: what visit(node) returns once its leave callback,
\* if it has one, has returned
VisitResult(node, method) == IF method # NoMethod THEN LeaveValue(node) ELSE None

\* utils.py 159-160: return methods[1](node); methods is the pair of line
\* 148, which the cache still holds
LvLeave(out) ==
    /\ status = "running" /\ exc = "none" /\ Top.pc = "lv_leave"
    /\ LET methods == get_callbacks(Top.node)
       IN  IF methods[2] = NoMethod
           THEN out = "ok" /\ trace' = trace /\ exc' = exc /\ Return(VisitResult(Top.node, methods[2]))
           ELSE /\ trace' = Append(trace, Event("leave", Top.node, None, out))
                /\ IF out = "ok"
                   THEN exc' = exc /\ Return(VisitResult(Top.node, methods[2]))
                   ELSE exc' = out /\ UNCHANGED <<stack, status, retval>>
    /\ UNCHANGED <<parent, oracleVars, graphVars, ncalls, _cache, _done, _visited, call>>

\* ------------------------------------------------------------ exceptions
\* mutant: no except clause
CatchesNothing(frame, e) == FALSE

\* mutant: the try of line 92 also encloses the loop over the children
CatchesAroundLoop(frame, e) == frame.pc \in {"visit", "children", "lv_visit"} /\ e = "IgnoreChild"

\* mutant: a bare except clause around the enter callback
CatchesAnything(frame, e) == frame.pc \in {"visit", "lv_visit"}

\* whether the frame's function catches exception e where the frame stands:
\* utils.py 92-95 (walk) and 151-154 (visit) catch the skip-children
\* signal raised by the enter callback; the except clause of 102-104
\* prints and raises again
Catches(frame, e) == frame.pc \in {"visit", "lv_visit"} /\ e = "IgnoreChild"

\* utils.py 95, 105 and 154-159: both except clauses go on to the leave callback
AfterCatch(frame) == IF frame.pc = "lv_visit" THEN "lv_leave" ELSE "leave"

\* an exception in flight reaches the innermost frame: it is caught there,
\* or leaves the frame
Unwind ==
    /\ status = "running" /\ exc # "none"
    /\ IF Catches(Top, exc)
       THEN exc' = "none" /\ Goto(AfterCatch(Top)) /\ status' = status
       ELSE /\ stack' = SubSeq(stack, 1, Len(stack) - 1)
            /\ exc' = exc
            /\ status' = IF Len(stack) = 1 THEN "raised" ELSE status
    /\ UNCHANGED <<parent, oracleVars, graphVars, ncalls, retval, _cache, _done, _visited, trace, call>>

\* ------------------------------------------------ graphs handed to a walker
RECURSIVE Ascending(_)
Ascending(S) ==
    IF S = {} THEN << >>
    ELSE LET m == CHOOSE x \in S : \A y \in S : x <= y
         IN  <<m>> \o Ascending(S \ {m})

Reverse(seq) == [j \in 1..Len(seq) |-> seq[Len(seq) + 1 - j]]

\* the parent links of the trees over Nodes, node 1 being the root
TreeParents == {par \in [Nodes -> 0..MaxNodes] : \A n \in Nodes : par[n] < n /\ (n > 1 => par[n] > 0)}

\* the children of p in the tree par, in ascending or in descending order
TreeChildren(par, desc, p) ==
    LET asc == Ascending({c \in Nodes : par[c] = p})
    IN  IF desc THEN Reverse(asc) ELSE asc

\* the classes of the nodes of a walked tree
ClassNames == {"Add", "Sub", "If"}

\* the handlers walked with: every hook, only the default hooks, some hooks,
\* every hook but set_context, and a hook of its own beside the default one
HandlerChoices ==
    { {<<"visit", "binop">>, <<"leave", "binop">>, <<"visit", "if">>, <<"leave", "if">>,
       <<"set_context", "">>},
      {<<"visit", "default">>, <<"leave", "default">>, <<"set_context", "">>},
      {<<"visit", "binop">>, <<"leave", "default">>, <<"set_context", "">>},
      {<<"visit", "binop">>, <<"leave", "binop">>, <<"visit", "if">>, <<"leave", "if">>},
      {<<"visit", "binop">>, <<"visit", "default">>, <<"leave", "if">>, <<"set_context", "">>} }

WalkerFresh ==
    /\ _cache = << >>
    /\ _done = {}
    /\ _visited = {}
    /\ stack = << >>
    /\ exc = "none"
    /\ trace = << >>
    /\ call = "none"
    /\ ncalls = 0
    /\ retval = None
    /\ status = "idle"

OracleIdle ==
    /\ kind = [n \in Stmts |-> "Other"]
    /\ body = [n \in Stmts |-> {}]
    /\ orelse = [n \in Stmts |-> None]
    /\ handlers = [n \in Stmts |-> << >>]
    /\ nstmts = 0
    /\ called = FALSE
    /\ result = [a \in Stmts |-> [b \in Stmts |-> "none"]]

\* a tree, a handler and a fresh ASTWalker(handler)
Init ==
    /\ \E par \in TreeParents, desc \in BOOLEAN :
          /\ parent = par
          /\ get_children = [p \in Nodes |-> TreeChildren(par, desc, p)]
    /\ values = get_children
    /\ locals = {n \in Nodes : get_children[n] # << >>}
    /\ \E k1, k2 \in ClassNames : klass = [n \in Nodes |-> IF n % 2 = 1 THEN k1 ELSE k2]
    /\ handler \in HandlerChoices
    /\ WalkerFresh
    /\ OracleIdle

\* the steps of ASTWalker.walk
NextWalk ==
    \/ \E node \in Nodes : parent[node] = None /\ Walk(node)
    \/ WalkCheckDone
    \/ \E out \in Outcomes : WalkVisit(out)
    \/ \E out \in Outcomes : WalkChild(out)
    \/ WalkChildrenDone
    \/ \E out \in Outcomes : WalkLeave(out)
    \/ Unwind

\* the steps of LocalsVisitor.visit
NextVisit ==
    \/ \E node \in Nodes : parent[node] = None /\ Visit(node)
    \/ LvCheckVisited
    \/ \E out \in Outcomes : LvVisit(out)
    \/ LvLocal
    \/ LvLocalsDone
    \/ \E out \in Outcomes : LvLeave(out)

Next == NextWalk \/ NextVisit

Spec == Init /\ [][Next]_vars

\* a graph in which a node is reachable twice: a tree and one more edge
\* (to a shared child, back to an ancestor, to the node itself, or a child
\* listed twice), with a handler and a fresh walker
InitGraph ==
    /\ \E par \in TreeParents, desc \in BOOLEAN, p \in Nodes, c \in Nodes :
          /\ parent = par
          /\ get_children = [q \in Nodes |->
                IF q = p THEN Append(TreeChildren(par, desc, q), c)
                ELSE TreeChildren(par, desc, q)]
    /\ values = get_children
    /\ locals = {n \in Nodes : get_children[n] # << >>}
    /\ klass = [n \in Nodes |-> "Add"]
    /\ handler \in HandlerChoices
    /\ WalkerFresh
    /\ OracleIdle

SpecGraph == InitGraph /\ [][NextWalk]_vars

\* LocalsVisitor.visit over such a graph of locals
NextLocals == NextVisit \/ Unwind

SpecLocals == InitGraph /\ [][NextLocals]_vars

\* the interpreter runs every call it has begun to its end, and the caller
\* does make its call
SpecLocalsFair == SpecLocals /\ WF_vars(NextLocals)

\* ------------------------------------------- several calls on one walker
\* top-level calls made one after the other on one walker, with a handler
\* whose callbacks return
NextTwice ==
    \/ \E node \in Nodes : parent[node] = None /\ Walk(node)
    \/ \E node \in Nodes : parent[node] = None /\ WalkAgain(node)
    \/ WalkCheckDone
    \/ WalkVisit("ok")
    \/ WalkChild("ok")
    \/ WalkChildrenDone
    \/ WalkLeave("ok")
    \/ Unwind
    \/ \E node \in Nodes : parent[node] = None /\ Visit(node)
    \/ \E node \in Nodes : VisitAgain(node)
    \/ LvCheckVisited
    \/ LvVisit("ok")
    \/ LvLocal
    \/ LvLocalsDone
    \/ LvLeave("ok")

SpecTwice == Init /\ [][NextTwice]_vars

\* ------------------------------------------- the resolver called on its own
\* utils.py 108: a call walker.get_callbacks(node) from outside a walk
GetCallbacks(node) ==
    /\ status \in {"idle", "returned"}
    /\ status' = "running"
    /\ call' = "get_callbacks"
    /\ stack' = <<[node |-> node, pc |-> "get_callbacks", i |-> 1]>>
    /\ UNCHANGED <<parent, oracleVars, graphVars, ncalls, retval, _cache, _done, _visited, exc, trace>>

\* utils.py 110-122: the cache is filled if need be and the pair returned
GetCallbacksReturn ==
    /\ status = "running" /\ exc = "none" /\ Top.pc = "get_callbacks"
    /\ _cache' = CacheAfter(Top.node)
    /\ Return(get_callbacks(Top.node))
    /\ UNCHANGED <<parent, oracleVars, graphVars, ncalls, _done, _visited, exc, trace, call>>

\* the methods a handler may gain or lose while the walker lives
HookMethods ==
    {<<"visit", "binop">>, <<"leave", "binop">>, <<"visit", "default">>, <<"leave", "default">>}

\* utils.py 82, 113: the walker keeps a reference to the handler, whose
\* owner gives it method m or takes it away between two calls
ChangeHandler(m) ==
    /\ status \in {"idle", "returned"}
    /\ handler' = IF m \in handler THEN handler \ {m} ELSE handler \cup {m}
    /\ call' = "setattr"
    /\ UNCHANGED <<parent, oracleVars, get_children, values, locals, klass, ncalls, retval,
                   _cache, _done, _visited, stack, exc, trace, status>>

\* nodes of some classes, a handler and a fresh walker
InitCache ==
    /\ parent = [n \in Nodes |-> None]
    /\ get_children = [n \in Nodes |-> << >>]
    /\ values = get_children
    /\ locals = {}
    /\ \E k1, k2 \in ClassNames : klass = [n \in Nodes |-> IF n % 2 = 1 THEN k1 ELSE k2]
    /\ handler \in SUBSET HookMethods
    /\ WalkerFresh
    /\ OracleIdle

NextCache ==
    \/ \E node \in Nodes : GetCallbacks(node)
    \/ GetCallbacksReturn
    \/ \E m \in HookMethods : ChangeHandler(m)

SpecCache == InitCache /\ [][NextCache]_vars

\* ------------------------------------------- vocabulary of the walker claims
\* the proper ancestors of n along the parent links
RECURSIVE Ancestors(_)
Ancestors(n) == IF parent[n] = None THEN {} ELSE {parent[n]} \cup Ancestors(parent[n])

Enters(n) == {i \in 1..Len(trace) : trace[i].hook = "visit" /\ trace[i].node = n}

Leaves(n) == {i \in 1..Len(trace) : trace[i].hook = "leave" /\ trace[i].node = n}

Callbacks(n) == Enters(n) \cup Leaves(n)

AllOk == \A i \in 1..Len(trace) : trace[i].out = "ok"

Finished == status \in {"returned", "raised"}

\* the handler method names formed from the classes of ClassNames
KidOf(n) == IF klass[n] \in {"Add", "Sub"} THEN "binop" ELSE "if"

\* the handler has a method, or a default one, for hook visit/leave of node n
HasHook(hook, n) == <<hook, KidOf(n)>> \in handler \/ <<hook, "default">> \in handler

\* in a tree: the nodes strictly below n, and n with them
Below(n) == {d \in Nodes : n \in Ancestors(d)}

WithBelow(n) == {n} \cup Below(n)

\* the node a top-level call starts from
Root == CHOOSE n \in Nodes : parent[n] = None

\* ------------------------------------------------------- walker claims
\* C1: on a tree, when no call on the handler raises, walk returns, having
\* called the enter and the leave callback of every node exactly once, with
\* enter(parent) < enter(child) < leave(child) < leave(parent) and the whole
\* subtree of child i done before anything of child i+1.
C1_WalkOrder ==
    (call = "walk" /\ AllOk) =>
        /\ status # "raised"
        /\ status = "returned" =>
              \A n \in Nodes :
                  /\ HasHook("visit", n) => Cardinality(Enters(n)) = 1
                  /\ HasHook("leave", n) => Cardinality(Leaves(n)) = 1
        /\ \A c \in Nodes : parent[c] # None =>
              /\ \A i \in Enters(parent[c]), j \in Callbacks(c) : i < j
              /\ \A i \in Enters(c), j \in Leaves(c) : i < j
              /\ \A i \in Callbacks(c), j \in Leaves(parent[c]) : i < j
        /\ \A p \in Nodes : \A k \in 1..(Len(get_children[p]) - 1) :
              \A a \in WithBelow(get_children[p][k]), b \in WithBelow(get_children[p][k + 1]) :
                  \A i \in Callbacks(a), j \in Callbacks(b) : i < j

\* C1 witness: a finished walk of a tree whose root has two children, the
\* first with a child of its own, every node entered and left
C1_Witness ==
    /\ call = "walk" /\ status = "returned" /\ AllOk
    /\ Len(get_children[Root]) = 2
    /\ get_children[get_children[Root][1]] # << >>
    /\ \A n \in Nodes : Enters(n) # {} /\ Leaves(n) # {}

\* the place of child n among the children of its parent
PlaceOf(n) == CHOOSE k \in 1..Len(get_children[parent[n]]) : get_children[parent[n]][k] = n

\* C2: when the enter callback of n raises the skip-children signal, no
\* enter, leave or set_context call is made for a descendant of n, leave(n)
\* is the next call and is made exactly once, and once it has returned the
\* walk goes on with set_context for the next sibling of n.
C2_SkipChildren ==
    call = "walk" =>
        \A i \in 1..Len(trace) :
            (trace[i].hook = "visit" /\ trace[i].out = "IgnoreChild") =>
                LET n == trace[i].node
                    k == IF HasHook("leave", n) THEN i + 1 ELSE i
                IN  /\ \A j \in 1..Len(trace) :
                          trace[j].node \notin Below(n) /\ trace[j].child \notin Below(n)
                    /\ Cardinality(Leaves(n)) <= 1
                    /\ HasHook("leave", n) =>
                          /\ Len(trace) > i => trace[i + 1].hook = "leave" /\ trace[i + 1].node = n
                          /\ Finished => Cardinality(Leaves(n)) = 1
                    /\ ( /\ Len(trace) >= k /\ trace[k].out \in {"ok", "IgnoreChild"}
                         /\ k > i => trace[k].out = "ok"
                         /\ parent[n] # None
                         /\ PlaceOf(n) < Len(get_children[parent[n]]) ) =>
                          /\ Finished => Len(trace) > k
                          /\ Len(trace) > k =>
                                /\ trace[k + 1].hook = "set_context"
                                /\ trace[k + 1].node = parent[n]
                                /\ trace[k + 1].child = get_children[parent[n]][PlaceOf(n) + 1]

\* C2 witness: the enter callback of a node with a child and a next sibling
\* raised the signal, and the walk returned
C2_Witness ==
    /\ call = "walk" /\ status = "returned"
    /\ \E i \in 1..Len(trace) :
          /\ trace[i].hook = "visit" /\ trace[i].out = "IgnoreChild"
          /\ get_children[trace[i].node] # << >>
          /\ parent[trace[i].node] # None
          /\ PlaceOf(trace[i].node) < Len(get_children[parent[trace[i].node]])
          /\ Leaves(trace[i].node) # {}

\* C9 as stated: the skip-children signal never escapes a top-level walk or
\* visit call, whichever callback raises it.
C9_SignalNeverEscapes ==
    status = "raised" => exc # "IgnoreChild"

\* C9 amended: the signal raised by an enter callback never escapes a
\* top-level walk or visit call; raised by a leave callback or by
\* set_context it is caught nowhere and reaches the caller.
C9_SignalEscapesUnlessFromEnter ==
    /\ (status = "raised" /\ exc = "IgnoreChild") =>
          /\ trace[Len(trace)].hook \in {"leave", "set_context"}
          /\ trace[Len(trace)].out = "IgnoreChild"
    /\ \A i \in 1..Len(trace) :
          (trace[i].hook \in {"leave", "set_context"} /\ trace[i].out = "IgnoreChild") =>
              /\ i = Len(trace)
              /\ exc = "IgnoreChild"
              /\ status \in {"running", "raised"}
    /\ \A i \in 1..Len(trace) :
          (trace[i].hook = "visit" /\ trace[i].out = "IgnoreChild" /\ Finished) =>
              (i < Len(trace) \/ status = "returned")

\* C9 witness: an enter callback raised the signal, which was caught, and
\* later a leave callback raised it, which ended the top-level call
C9_Witness ==
    /\ status = "raised" /\ exc = "IgnoreChild"
    /\ trace[Len(trace)].hook = "leave"
    /\ \E i \in 1..(Len(trace) - 1) : trace[i].hook = "visit" /\ trace[i].out = "IgnoreChild"

\* how many times the walk has come to node n
Encounters(n) ==
    Cardinality({i \in 1..Len(trace) :
        trace[i].hook = "set_context" /\ trace[i].child = n /\ trace[i].out = "ok"})
    + (IF n = Root /\ call = "walk" THEN 1 ELSE 0)

C10_SecondEncounterFaults ==
    call = "walk" =>
        \A n \in Nodes :
            /\ Cardinality(Enters(n)) <= 1
            /\ Encounters(n) <= 2
            /\ Encounters(n) = 2 =>
                  \/ exc = "AssertionError"
                  \/ exc = "none" /\ status = "running" /\ Top.pc = "walk" /\ Top.node = n

C10_FaultEndsTheWalk ==
    exc = "AssertionError" =>
        trace' = trace /\ exc' = "AssertionError" /\ status' # "returned"

\* C10: in one walk the second encounter of a node raises the
\* consistency fault before its enter callback is called again, so no node
\* is entered twice; after the fault no callback is called any more and the
\* fault reaches the caller.
C10_NoSecondVisit == [] C10_SecondEncounterFaults /\ [][C10_FaultEndsTheWalk]_vars

\* C10 witness: the fault ended a walk, and a node that was entered, and
\* has a leave callback, was never left
C10_Witness ==
    /\ call = "walk" /\ status = "raised" /\ exc = "AssertionError"
    /\ \E n \in Nodes : Enters(n) # {} /\ HasHook("leave", n) /\ Leaves(n) = {}
    /\ \E n \in Nodes : Encounters(n) = 2 /\ Cardinality(Enters(n)) = 1

\* C11: in a walk, an error other than the skip-children signal raised by
\* an enter or leave callback reaches the top-level caller unchanged: it is
\* the last callback of the walk (no enter, leave or set_context follows),
\* so the node whose enter raised and its open ancestors are never left,
\* and the walk never returns normally.
C11_ErrorReachesCaller ==
    call = "walk" =>
        \A i \in 1..Len(trace) :
            (trace[i].hook \in {"visit", "leave"} /\ trace[i].out = "Error") =>
                /\ i = Len(trace)
                /\ exc = "Error"
                /\ status \in {"running", "raised"}
                /\ trace[i].hook = "visit" =>
                      \A a \in {trace[i].node} \cup Ancestors(trace[i].node) : Leaves(a) = {}

\* C11 witness: the enter callback of a node below the root raised an
\* error, the walk ended with it, and the node and its parent, which have a
\* leave callback and were entered, were not left
C11_Witness ==
    /\ call = "walk" /\ status = "raised" /\ exc = "Error"
    /\ LET last == trace[Len(trace)]
       IN  /\ last.hook = "visit" /\ last.out = "Error"
           /\ parent[last.node] # None
           /\ HasHook("leave", last.node) /\ HasHook("leave", parent[last.node])
           /\ Enters(parent[last.node]) # {}
           /\ Leaves(parent[last.node]) = {}

\* C14: a walk of a tree in which some node has a child, with a handler
\* that has no set_context method and whose enter and leave callbacks all
\* return, ends without a fault, and every node with an enter callback is
\* entered and every node with a leave callback is left.
C14_SetContextOptional ==
    ( /\ call = "walk" /\ Finished
      /\ <<"set_context", "">> \notin handler
      /\ \E n \in Nodes : get_children[n] # << >>
      /\ \A i \in 1..Len(trace) : trace[i].hook \in {"visit", "leave"} => trace[i].out = "ok" )
    => /\ status = "returned"
       /\ \A n \in Nodes : HasHook("visit", n) => Enters(n) # {}
       /\ \A n \in Nodes : HasHook("leave", n) => Leaves(n) # {}

\* the slot the handler fills for node n: its method for the kind of n,
\* else its default hook, else nothing
Slot(hook, n) ==
    IF <<hook, KidOf(n)>> \in handler THEN <<hook, KidOf(n)>>
    ELSE IF <<hook, "default">> \in handler THEN <<hook, "default">>
    ELSE NoMethod

\* the nodes the running call has come to
Reached == IF call = "walk" THEN _done ELSE _visited

\* C15: the pair resolved for a node holds, in each slot independently, the
\* handler's method for the canonical kind if there is one, else its
\* default hook, else nothing; resolving never raises (an exception in
\* flight always comes from the last call on the handler); and a node
\* with an empty enter slot still has its children walked and its leave
\* callback called.
C15_DispatchTotal ==
    /\ \A n \in Nodes :
          klass[n] \in DOMAIN _cache => _cache[klass[n]] = <<Slot("visit", n), Slot("leave", n)>>
    /\ exc # "none" => (trace # << >> /\ trace[Len(trace)].out = exc)
    /\ \A n \in Nodes :
          (status = "returned" /\ n \in Reached /\ Slot("visit", n) = NoMethod) =>
              /\ \A k \in 1..Len(get_children[n]) : get_children[n][k] \in Reached
              /\ Slot("leave", n) # NoMethod => Leaves(n) # {}

\* C15 witness: a walk has returned in which a node with children had no
\* enter callback but the default leave callback, another node had the
\* handler's own enter callback for its kind, and the children were
\* entered
C15_Witness ==
    /\ call = "walk" /\ status = "returned"
    /\ \E n, m \in Nodes :
          /\ n \in Reached /\ get_children[n] # << >>
          /\ _cache[klass[n]] = <<NoMethod, <<"leave", "default">> >>
          /\ Leaves(n) # {}
          /\ parent[m] = n /\ Enters(m) # {}
          /\ _cache[klass[m]] = << <<"visit", "binop">>, <<"leave", "default">> >>

C16_EntriesStay ==
    \A k \in DOMAIN _cache : k \in DOMAIN _cache' /\ _cache'[k] = _cache[k]

C16_ReturnsTheEntry ==
    (status = "running" /\ Top.pc = "get_callbacks") =>
        /\ klass[Top.node] \in DOMAIN _cache'
        /\ retval' = _cache'[klass[Top.node]]

\* C16: the handler is asked at most once for a kind: no step removes or
\* changes an entry of the cache, and every get_callbacks call leaves an
\* entry for the kind of its node and returns that entry, so every later
\* call for the kind returns the pair of the first one, also when both
\* slots are empty and when the handler's methods have changed since.
C16_LookupOnce == [][C16_EntriesStay /\ C16_ReturnsTheEntry]_vars

\* C16 witness: after the handler's methods changed, a get_callbacks call
\* has returned the cached pair with both slots empty, which is no longer
\* what the handler would give for any kind in the cache
C16_Witness ==
    /\ call = "get_callbacks" /\ status = "returned"
    /\ retval = <<NoMethod, NoMethod>>
    /\ _cache # << >>
    /\ \A k \in DOMAIN _cache : _cache[k] = retval /\ LookupMethods(k) # retval

\* the callbacks of every walk call made so far are those of the first one
SameCallbacksEachWalk ==
    LET len == Len(trace) \div ncalls
    IN  /\ Len(trace) = ncalls * len
        /\ \A i \in 1..(Len(trace) - len) : trace[i + len] = trace[i]

C20_WalkStartsAfresh ==
    call = "walk" =>
        /\ exc # "AssertionError"
        /\ status = "returned" => SameCallbacksEachWalk

C20_VisitRemembers ==
    /\ _visited \subseteq _visited'
    /\ (call = "visit" /\ ncalls >= 2 /\ status = "running" /\ stack[1].node \in _visited) =>
          /\ trace' = trace
          /\ status' = "returned" => retval' = None

\* C20: a top-level walk starts with an empty visited set, so walking one
\* tree again with the same walker raises no consistency fault and gives
\* the callbacks of the first walk once more; a LocalsVisitor never forgets
\* a visited node, so a later top-level visit of a visited node calls no
\* callback and returns None.
C20_VisitedStatePerWalker == [] C20_WalkStartsAfresh /\ [][C20_VisitRemembers]_vars

\* C20 witness: the second walk of a tree with a node below the root has
\* returned after calling enter and leave callbacks for each node again
C20_Witness ==
    /\ call = "walk" /\ ncalls = 2 /\ status = "returned"
    /\ \E n \in Nodes : parent[n] # None
    /\ \A n \in Nodes : Cardinality(Enters(n)) = 2 /\ Cardinality(Leaves(n)) = 2

\* an edge of the locals graph that closes a cycle
HasCycle == \E p \in Nodes : \E k \in 1..Len(values[p]) : values[p][k] \in {p} \cup Ancestors(p)

\* an edge of the locals graph to a node that another node lists as well
HasSharedNode ==
    \E p, q \in Nodes : \E k \in 1..Len(values[p]), l \in 1..Len(values[q]) :
        p # q /\ values[p][k] = values[q][l] /\ values[p][k] \notin {p, q} \cup Ancestors(p)

C12_AtMostOnce ==
    call = "visit" =>
        \A n \in Nodes : Cardinality(Enters(n)) <= 1 /\ Cardinality(Leaves(n)) <= 1

\* C12: LocalsVisitor.visit on a finite graph of locals, cycles and shared
\* nodes included, comes to an end, and on the way the enter callback of
\* every node is called at most once and so is its leave callback.
C12_VisitTerminates == [] C12_AtMostOnce /\ <> Finished

\* C12 witness: a visit of a graph with a cycle has returned, and every
\* node was entered once and left once
C12_Witness ==
    /\ call = "visit" /\ status = "returned" /\ AllOk
    /\ HasCycle
    /\ \A n \in Nodes : Cardinality(Enters(n)) = 1 /\ Cardinality(Leaves(n)) = 1

\* the step in which the innermost visit call returns normally
VisitReturns ==
    /\ call = "visit" /\ status = "running" /\ exc = "none" /\ exc' = "none"
    /\ Len(stack') = Len(stack) - 1

C13_ReturnValue ==
    VisitReturns =>
        IF Top.pc = "lv_leave" /\ HasHook("leave", Top.node)
        THEN /\ retval' = LeaveValue(Top.node)
             /\ trace' = Append(trace, Event("leave", Top.node, None, "ok"))
        ELSE /\ retval' = None
             /\ trace' = trace

\* C13: a call visit(N) returns the value its leave callback returned
\* exactly when the call is the first, real visit of N and N has a leave
\* callback; a call that finds N visited already calls no callback and
\* returns None, and so does a real visit of a node without leave callback
\* once the locals are done.
C13_VisitReturnsLeaveValue == [][C13_ReturnValue]_vars

\* C13 witness: the top-level visit of a graph with a shared node has
\* returned the value of the root's leave callback; every node was
\* entered, so the second visit of the shared node returned before
C13_Witness ==
    /\ call = "visit" /\ status = "returned" /\ AllOk
    /\ HasSharedNode
    /\ retval = LeaveValue(Root) /\ retval # None
    /\ \A n \in Nodes : Cardinality(Enters(n)) = 1

\* ------------------------------------------- vocabulary of the oracle claims
\* the nodes of the subtree rooted at r
Subtree(r) == {n \in Existing : n = r \/ r \in Ancestors(n)}

\* the lowest common proper ancestor of a and b (None when there is none)
LowestCommonAncestor(a, b) ==
    LET common == Ancestors(a) \cap Ancestors(b)
    IN  IF common = {} THEN None
        ELSE CHOOSE c \in common : \A d \in common : d = c \/ d \in Ancestors(c)

\* the child of ancestor t through which n is reached
RECURSIVE EntryChild(_, _)
EntryChild(t, n) == IF parent[n] = t THEN n ELSE EntryChild(t, parent[n])

InHandler(t, x) == \E i \in 1..Len(handlers[t]) : x \in handlers[t][i]

HandlerOf(t, x) == CHOOSE i \in 1..Len(handlers[t]) : x \in handlers[t][i]

Classifiable(t, x) == x \in body[t] \/ x = orelse[t] \/ InHandler(t, x)

\* pairs (a, b) whose lowest common ancestor is the exception construct t,
\* reached through the entry children x and y
TryPairs ==
    {q \in Existing \X Existing \X Existing :
        /\ kind[q[3]] = "TryExcept"
        /\ LowestCommonAncestor(q[1], q[2]) = q[3]}

\* ------------------------------------------------------- oracle claims
\* C3: for every conditional f, every statement a anywhere in the subtree of
\* its then-branch and every statement b anywhere in the subtree of its
\* else-branch, are_exclusive(a, b) is True, whatever is nested in between.
C3_ThenElseExclusive ==
    called =>
        \A f \in Existing : \A t \in body[f] :
            (kind[f] = "If" /\ orelse[f] # None) =>
                \A a \in Subtree(t), b \in Subtree(orelse[f]) :
                    result[a][b] = "True" /\ result[b][a] = "True"

\* C3 witness: a statement under an exception construct nested in the
\* then-branch was compared with the else-branch
C3_Witness ==
    /\ called
    /\ \E f, t, a \in Existing :
          /\ kind[f] = "If" /\ orelse[f] # None
          /\ t \in body[f] /\ kind[t] = "TryExcept"
          /\ InHandler(t, a)
          /\ result[a][orelse[f]] = "True"

\* C4: two distinct statements that are sequential members of the same
\* then-branch block of a conditional are not exclusive.
C4_SameBranchNotExclusive ==
    called =>
        \A f \in Existing : \A t \in body[f] :
            (kind[f] = "If" /\ kind[t] = "Other") =>
                \A a, c \in Existing :
                    (a # c /\ parent[a] = t /\ parent[c] = t) => result[a][c] = "False"

C4_Witness ==
    /\ called
    /\ \E f, t, a, c \in Existing :
          /\ kind[f] = "If" /\ t \in body[f] /\ kind[t] = "Other"
          /\ a # c /\ parent[a] = t /\ parent[c] = t
          /\ result[a][c] = "False"

\* C5 as stated: with an exception construct as lowest common ancestor,
\* one entry child in its body and the other in a handler's body or its
\* else-clause, are_exclusive is True.
C5_BodyVsHandlerOrElseExclusive ==
    called =>
        \A q \in TryPairs :
            LET x == EntryChild(q[3], q[1])
                y == EntryChild(q[3], q[2])
            IN  (x \in body[q[3]] /\ (InHandler(q[3], y) \/ y = orelse[q[3]]))
                    => result[q[1]][q[2]] = "True" /\ result[q[2]][q[1]] = "True"

\* C5 amended: in that case are_exclusive is False (the body is not flagged
\* exclusive with a handler's body, nor with the else-clause).
C5_BodyVsHandlerOrElseNotExclusive ==
    called =>
        \A q \in TryPairs :
            LET x == EntryChild(q[3], q[1])
                y == EntryChild(q[3], q[2])
            IN  (x \in body[q[3]] /\ (InHandler(q[3], y) \/ y = orelse[q[3]]))
                    => result[q[1]][q[2]] = "False" /\ result[q[2]][q[1]] = "False"

\* C5 witness: both a body/handler pair and a body/else pair were compared
C5_Witness ==
    /\ called
    /\ \E q \in TryPairs :
          /\ EntryChild(q[3], q[1]) \in body[q[3]]
          /\ InHandler(q[3], EntryChild(q[3], q[2]))
          /\ result[q[1]][q[2]] = "False"
    /\ \E q \in TryPairs :
          /\ EntryChild(q[3], q[1]) \in body[q[3]]
          /\ EntryChild(q[3], q[2]) = orelse[q[3]]
          /\ result[q[1]][q[2]] = "False"

\* C6: with an exception construct as lowest common ancestor and both entry
\* children in handler bodies, are_exclusive is True when the handlers
\* differ and False when they are distinct members of one handler's body;
\* two distinct members of the construct's body are not exclusive.
C6_HandlerIndices ==
    called =>
        \A q \in TryPairs :
            LET t == q[3]
                x == EntryChild(t, q[1])
                y == EntryChild(t, q[2])
            IN  /\ (InHandler(t, x) /\ InHandler(t, y) /\ x # y) =>
                      result[q[1]][q[2]] =
                          (IF HandlerOf(t, x) # HandlerOf(t, y) THEN "True" ELSE "False")
                /\ (x \in body[t] /\ y \in body[t] /\ x # y) =>
                      result[q[1]][q[2]] = "False"

\* C6 witness: pairs from different handlers, from one handler and from the
\* body were all compared
C6_Witness ==
    /\ called
    /\ \E q \in TryPairs :
          LET x == EntryChild(q[3], q[1])
              y == EntryChild(q[3], q[2])
          IN  /\ InHandler(q[3], x) /\ InHandler(q[3], y)
              /\ HandlerOf(q[3], x) # HandlerOf(q[3], y)
              /\ result[q[1]][q[2]] = "True"
    /\ \E q \in TryPairs :
          LET x == EntryChild(q[3], q[1])
              y == EntryChild(q[3], q[2])
          IN  /\ InHandler(q[3], x) /\ InHandler(q[3], y) /\ x # y
              /\ HandlerOf(q[3], x) = HandlerOf(q[3], y)
              /\ result[q[1]][q[2]] = "False"

\* C7: are_exclusive is symmetric: the same boolean, or the
\* branch-classification fault, in both orders.
C7_Symmetric ==
    called => \A a, b \in Existing : result[a][b] = result[b][a]

\* C7 witness: the calls gave True for one pair, the fault for another, and
\* one statement of a compared pair is an ancestor of the other
C7_Witness ==
    /\ called
    /\ \E a, b \in Existing : result[a][b] = "True"
    /\ \E a, b \in Existing : result[a][b] = "ASTNGError"
    /\ \E a, b \in Existing : a \in Ancestors(b) /\ result[a][b] = "False"

\* C8: are_exclusive(a, a) is False, and never the fault, whatever the
\* parent of a is.
C8_NotExclusiveWithItself ==
    called => \A a \in Existing : result[a][a] = "False"

\* C8 witness: a root, a child of a conditional and an unclassifiable child
\* of an exception construct were each compared with themselves
C8_Witness ==
    /\ called
    /\ \E a \in Existing : parent[a] = None /\ result[a][a] = "False"
    /\ \E a \in Existing : parent[a] # None /\ kind[parent[a]] = "If"
    /\ \E a \in Existing :
          /\ parent[a] # None /\ kind[parent[a]] = "TryExcept"
          /\ ~ Classifiable(parent[a], a)
          /\ result[a][a] = "False"

\* C17 as stated: with an exception construct as lowest common ancestor,
\* one entry child in a handler's body and the other the else-clause,
\* are_exclusive is False.
C17_HandlerVsElseNotExclusive ==
    called =>
        \A q \in TryPairs :
            LET x == EntryChild(q[3], q[1])
                y == EntryChild(q[3], q[2])
            IN  (InHandler(q[3], x) /\ y = orelse[q[3]])
                    => result[q[1]][q[2]] = "False" /\ result[q[2]][q[1]] = "False"

\* C17 amended: in that case are_exclusive is True (a handler's body and
\* the else-clause are flagged exclusive), in both orders.
C17_HandlerVsElseExclusive ==
    called =>
        \A q \in TryPairs :
            LET x == EntryChild(q[3], q[1])
                y == EntryChild(q[3], q[2])
            IN  (InHandler(q[3], x) /\ y = orelse[q[3]])
                    => result[q[1]][q[2]] = "True" /\ result[q[2]][q[1]] = "True"

\* C17 witness: a statement of a handler's body was compared with the
\* else-clause of the same construct, which also has a body
C17_Witness ==
    /\ called
    /\ \E q \in TryPairs :
          /\ InHandler(q[3], EntryChild(q[3], q[1]))
          /\ EntryChild(q[3], q[2]) = orelse[q[3]]
          /\ body[q[3]] # {}
          /\ result[q[1]][q[2]] = "True"

\* C18: are_exclusive is False for two statements without a common proper
\* ancestor (one is a root, or they are in different trees), and for two
\* statements whose lowest common proper ancestor is neither a conditional
\* nor an exception construct, whatever lies above it.
C18_NoConstructNotExclusive ==
    called =>
        \A a, b \in Existing :
            LET lca == LowestCommonAncestor(a, b)
            IN  (lca = None \/ kind[lca] = "Other") => result[a][b] = "False"

\* C18 witness: a root that is a conditional was compared with a statement
\* below it, and two statements of a plain block under a conditional or
\* an exception construct were compared
C18_Witness ==
    /\ called
    /\ \E a, b \in Existing :
          /\ parent[a] = None /\ kind[a] \in {"If", "TryExcept"} /\ a \in Ancestors(b)
          /\ result[a][b] = "False" /\ result[b][a] = "False"
    /\ \E a, b \in Existing :
          /\ a # b /\ LowestCommonAncestor(a, b) # None
          /\ kind[LowestCommonAncestor(a, b)] = "Other"
          /\ \E c \in Ancestors(LowestCommonAncestor(a, b)) : kind[c] \in {"If", "TryExcept"}
          /\ result[a][b] = "False"

\* C19: with an exception construct as lowest common ancestor and distinct
\* entry children, are_exclusive raises the branch-classification fault
\* when an entry child is neither in the body, nor the else-clause, nor in
\* a handler's body, and returns a boolean when both are classifiable.
C19_FaultIffUnclassifiable ==
    called =>
        \A q \in TryPairs :
            LET x == EntryChild(q[3], q[1])
                y == EntryChild(q[3], q[2])
            IN  x # y =>
                  IF Classifiable(q[3], x) /\ Classifiable(q[3], y)
                  THEN result[q[1]][q[2]] \in {"True", "False"}
                  ELSE result[q[1]][q[2]] = "ASTNGError"

\* C19 witness: the fault was raised for a pair with the unclassifiable
\* entry child first and for a pair with it second, and a boolean was
\* returned for a classifiable pair of the same construct
C19_Witness ==
    /\ called
    /\ \E q, r \in TryPairs :
          /\ q[3] = r[3]
          /\ Classifiable(q[3], EntryChild(q[3], q[1]))
          /\ ~ Classifiable(q[3], EntryChild(q[3], q[2]))
          /\ result[q[1]][q[2]] = "ASTNGError" /\ result[q[2]][q[1]] = "ASTNGError"
          /\ EntryChild(r[3], r[1]) # EntryChild(r[3], r[2])
          /\ Classifiable(r[3], EntryChild(r[3], r[1]))
          /\ Classifiable(r[3], EntryChild(r[3], r[2]))
          /\ result[r[1]][r[2]] \in {"True", "False"}

====
